---------------------------- MODULE Spec2Model ----------------------------
(***************************************************************************)
(* Model of berlin_services_mcp/server.py: the process-wide dataset cache, *)
(* the fetcher, the query functions, the formatter and the tool            *)
(* dispatcher.                                                             *)
(*                                                                         *)
(* Text is a sequence of one-character strings, so that substring search,  *)
(* prefixes, str() and concatenation are computed rather than assumed.     *)
(* A JSON value whose Python type matters (an id, a tool argument) is      *)
(* tagged: [t |-> "int", v |-> 42], [t |-> "str", v |-> <<"4","2">>],      *)
(* [t |-> "none"].  A dict is a function from keys to values; a key the    *)
(* dict lacks is outside its DOMAIN.                                       *)
(***************************************************************************)
EXTENDS Integers, Sequences, FiniteSets, TLC

VARIABLES
    _services_cache,  \* the module global: None or the parsed dataset
    invocations,      \* call_tool coroutines: position and locals of each
    call,             \* the query function applied directly, with its inputs
    ret               \* what that application returned

vars == <<_services_cache, invocations, call, ret>>

---------------------------------------------------------------------------
(* Python values and builtins                                              *)

None == [t |-> "none"]

PyInt(n) == [t |-> "int", v |-> n]

PyStr(s) == [t |-> "str", v |-> s]

PyBool(b) == [t |-> "bool", v |-> b]

EmptyDict == [k \in {} |-> 0]

Min(a, b) == IF a <= b THEN a ELSE b

Max(a, b) == IF a >= b THEN a ELSE b

\* dict.get(k, default)
Get(d, k, default) == IF k \in DOMAIN d THEN d[k] ELSE default

\* dict.get(k): None when the key is absent; a text value comes back tagged
GetText(d, k) == IF k \in DOMAIN d THEN PyStr(d[k]) ELSE None

\* d.get(k1, {}).get(k2, default)
GetIn(d, k1, k2, default) == Get(Get(d, k1, EmptyDict), k2, default)

UpperCase == <<"A","B","C","D","E","F","G","H","I","J","K","L","M","N","O","P","Q","R","S","T","U","V","W","X","Y","Z">>

LowerCase == <<"a","b","c","d","e","f","g","h","i","j","k","l","m","n","o","p","q","r","s","t","u","v","w","x","y","z">>

LowerChar(c) == IF \E i \in 1..Len(UpperCase) : UpperCase[i] = c THEN LowerCase[CHOOSE i \in 1..Len(UpperCase) : UpperCase[i] = c] ELSE c

\* str.lower()
Lower(s) == [i \in 1..Len(s) |-> LowerChar(s[i])]

\* the `in` operator on two strings
Contains(sub, s) == \E k \in 0..(Len(s) - Len(sub)) : \A j \in 1..Len(sub) : s[k + j] = sub[j]

Digits == <<"0","1","2","3","4","5","6","7","8","9">>

RECURSIVE NatToStr(_)
NatToStr(n) == IF n < 10 THEN <<Digits[n + 1]>> ELSE NatToStr(n \div 10) \o <<Digits[(n % 10) + 1]>>

\* str() of an int
IntToStr(n) == IF n < 0 THEN <<"-">> \o NatToStr(0 - n) ELSE NatToStr(n)

\* str(), and the conversion an f-string applies to a value
\* texts: "True", "False", "None"
PyStrOf(x) == CASE x.t = "str" -> x.v [] x.t = "int" -> IntToStr(x.v) [] x.t = "bool" -> (IF x.v THEN <<"T","r","u","e">> ELSE <<"F","a","l","s","e">>) [] OTHER -> <<"N","o","n","e">>

\* truth value of an object (`not x` is its negation)
Truthy(x) == CASE x.t = "str" -> x.v # <<>> [] x.t = "int" -> x.v # 0 [] x.t = "bool" -> x.v [] OTHER -> FALSE

\* seq[:n], negative n counting from the end
SlicePrefix(s, n) == IF n >= 0 THEN SubSeq(s, 1, Min(n, Len(s))) ELSE SubSeq(s, 1, Max(Len(s) + n, 0))

RECURSIVE Join(_, _)
\* sep.join(lines)
Join(lines, sep) == IF lines = <<>> THEN <<>> ELSE IF Len(lines) = 1 THEN lines[1] ELSE LET half == Len(lines) \div 2 IN Join(SubSeq(lines, 1, half), sep) \o sep \o Join(SubSeq(lines, half + 1, Len(lines)), sep)

RECURSIVE Concat(_)
\* the text built by appending the pieces in order (output += ...)
Concat(pieces) == IF pieces = <<>> THEN <<>> ELSE IF Len(pieces) = 1 THEN pieces[1] ELSE LET half == Len(pieces) \div 2 IN Concat(SubSeq(pieces, 1, half)) \o Concat(SubSeq(pieces, half + 1, Len(pieces)))

StartsWith(s, prefix) == Len(s) >= Len(prefix) /\ SubSeq(s, 1, Len(prefix)) = prefix

---------------------------------------------------------------------------
(* Program constants                                                       *)

DescriptionLimit == 200

AuthoritiesShown == 5

DefaultLimit == 50

MaxLimit == 200

---------------------------------------------------------------------------
(* Query functions                                                         *)

Services(data) == Get(data, "data", <<>>)

\* the test of line 41 on one record
SearchMatches(service, query) == \/ Contains(Lower(query), Lower(Get(service, "name", <<>>)))
                                 \/ Contains(Lower(query), Lower(Get(service, "description", <<>>)))

\* the test with the description left out (a fault C4 must detect)
SearchMatchesNameOnly(service, query) == Contains(Lower(query), Lower(Get(service, "name", <<>>)))

\* the description of a search result: cut to 200 characters plus "..."
\* texts: "..."
Truncated(description) == IF Len(description) > DescriptionLimit THEN SubSeq(description, 1, DescriptionLimit) \o <<".",".",".">> ELSE description

SearchResult(service) == [id |-> Get(service, "id", None), name |-> GetText(service, "name"), description |-> Truncated(Get(service, "description", <<>>)), url |-> GetIn(service, "meta", "url", <<>>), fees |-> Get(service, "fees", <<>>)]

\* search_services matching on the name alone
search_services_name_only(data, query) == LET hits == SelectSeq(Services(data), LAMBDA s : SearchMatchesNameOnly(s, query)) IN [i \in 1..Len(hits) |-> SearchResult(hits[i])]

search_services(data, query) == LET hits == SelectSeq(Services(data), LAMBDA s : SearchMatches(s, query)) IN [i \in 1..Len(hits) |-> SearchResult(hits[i])]

\* the comparison of line 56
IdMatches(service, service_id) == PyStrOf(Get(service, "id", None)) = PyStrOf(service_id)

\* get_service_by_id comparing the ids without str() (a fault C5 must detect)
get_service_by_id_uncoerced(data, service_id) == LET hits == {i \in 1..Len(Services(data)) : Get(Services(data)[i], "id", None) = service_id} IN IF hits = {} THEN None ELSE Services(data)[CHOOSE i \in hits : \A j \in hits : i <= j]

get_service_by_id(data, service_id) == LET hits == {i \in 1..Len(Services(data)) : IdMatches(Services(data)[i], service_id)} IN IF hits = {} THEN None ELSE Services(data)[CHOOSE i \in hits : \A j \in hits : i <= j]

ListItem(service) == [id |-> Get(service, "id", None), name |-> GetText(service, "name"), url |-> GetIn(service, "meta", "url", <<>>)]

list_all_services(data, limit) == LET shown == SlicePrefix(Services(data), limit) IN [i \in 1..Len(shown) |-> ListItem(shown[i])]

---------------------------------------------------------------------------
(* Formatter                                                               *)

\* a name rendered as a link when the entry has a non-empty link
\* texts: "- [", "N/A", "](", ")", "- ", "N/A"
LinkBullet(entry) == IF Get(entry, "link", <<>>) # <<>> THEN <<"-"," ","[">> \o Get(entry, "name", <<"N","/","A">>) \o <<"]","(">> \o Get(entry, "link", <<>>) \o <<")">> ELSE <<"-"," ">> \o Get(entry, "name", <<"N","/","A">>)

\* texts: "- ", "N/A"
NameBullet(entry) == <<"-"," ">> \o Get(entry, "name", <<"N","/","A">>)

\* texts: "# ", "N/A", "\n**ID:** ", "N/A", "**URL:** ", "N/A", "\n## Description", "N/A", "\n## Fees", "N/A", "\n## Process Time", "N/A"
HeadLines(service) == << <<"#"," ">> \o Get(service, "name", <<"N","/","A">>), <<"\n","*","*","I","D",":","*","*"," ">> \o PyStrOf(Get(service, "id", PyStr(<<"N","/","A">>))), <<"*","*","U","R","L",":","*","*"," ">> \o GetIn(service, "meta", "url", <<"N","/","A">>), <<"\n","#","#"," ","D","e","s","c","r","i","p","t","i","o","n">>, Get(service, "description", <<"N","/","A">>), <<"\n","#","#"," ","F","e","e","s">>, Get(service, "fees", <<"N","/","A">>), <<"\n","#","#"," ","P","r","o","c","e","s","s"," ","T","i","m","e">>, Get(service, "process_time", <<"N","/","A">>) >>

RECURSIVE RequirementEntries(_)
\* texts: "\n### ", "N/A"
RequirementEntries(requirements) == IF requirements = <<>> THEN <<>> ELSE << <<"\n","#","#","#"," ">> \o Get(requirements[1], "name", <<"N","/","A">>), Get(requirements[1], "description", <<>>) >> \o RequirementEntries(Tail(requirements))

\* texts: "\n## Requirements"
RequirementLines(service) == LET requirements == Get(service, "requirements", <<>>) IN IF requirements # <<>> THEN << <<"\n","#","#"," ","R","e","q","u","i","r","e","m","e","n","t","s">> >> \o RequirementEntries(requirements) ELSE <<>>

\* the condition of line 85
\* texts: "keine"
ShowsPrerequisites(prerequisites) == prerequisites # <<>> /\ GetText(prerequisites[1], "name") # PyStr(<<"k","e","i","n","e">>)

\* texts: "\n## Prerequisites"
PrerequisiteLines(service) == LET prerequisites == Get(service, "prerequisites", <<>>) IN IF ShowsPrerequisites(prerequisites) THEN << <<"\n","#","#"," ","P","r","e","r","e","q","u","i","s","i","t","e","s">> >> \o [i \in 1..Len(prerequisites) |-> NameBullet(prerequisites[i])] ELSE <<>>

\* texts: "\n## Forms"
FormLines(service) == LET forms == Get(service, "forms", <<>>) IN IF forms # <<>> THEN << <<"\n","#","#"," ","F","o","r","m","s">> >> \o [i \in 1..Len(forms) |-> LinkBullet(forms[i])] ELSE <<>>

\* texts: "\n## Online Processing", "[Process online](", ")"
OnlineLines(service) == LET link == GetIn(service, "onlineprocessing", "link", <<>>) IN IF link # <<>> THEN << <<"\n","#","#"," ","O","n","l","i","n","e"," ","P","r","o","c","e","s","s","i","n","g">>, <<"[","P","r","o","c","e","s","s"," ","o","n","l","i","n","e","]","(">> \o link \o <<")">> >> ELSE <<>>

\* texts: "\n## Appointment", "[Book appointment](", ")"
AppointmentLines(service) == LET link == GetIn(service, "appointment", "link", <<>>) IN IF link # <<>> THEN << <<"\n","#","#"," ","A","p","p","o","i","n","t","m","e","n","t">>, <<"[","B","o","o","k"," ","a","p","p","o","i","n","t","m","e","n","t","]","(">> \o link \o <<")">> >> ELSE <<>>

\* texts: "\n## Responsible Authorities", "- ... and ", " more"
AuthorityLines(service) == LET authorities == Get(service, "authorities", <<>>) shown == SlicePrefix(authorities, AuthoritiesShown) IN IF authorities # <<>> THEN << <<"\n","#","#"," ","R","e","s","p","o","n","s","i","b","l","e"," ","A","u","t","h","o","r","i","t","i","e","s">> >> \o [i \in 1..Len(shown) |-> NameBullet(shown[i])] \o (IF Len(authorities) > AuthoritiesShown THEN << <<"-"," ",".",".","."," ","a","n","d"," ">> \o IntToStr(Len(authorities) - AuthoritiesShown) \o <<" ","m","o","r","e">> >> ELSE <<>>) ELSE <<>>

\* texts: "\n## Legal Basis"
LegalLines(service) == LET legal == Get(service, "legal", <<>>) IN IF legal # <<>> THEN << <<"\n","#","#"," ","L","e","g","a","l"," ","B","a","s","i","s">> >> \o [i \in 1..Len(legal) |-> LinkBullet(legal[i])] ELSE <<>>

\* the list `lines` as it stands at line 135
DetailLines(service) == HeadLines(service) \o RequirementLines(service) \o PrerequisiteLines(service) \o FormLines(service) \o OnlineLines(service) \o AppointmentLines(service) \o AuthorityLines(service) \o LegalLines(service)

\* texts: "\n"
format_service_details(service) == Join(DetailLines(service), <<"\n">>)

---------------------------------------------------------------------------
(* Bounds of the model                                                     *)

MaxInvocations == 2

MaxQueryLen == 3

MaxId == 43

MaxLimitArg == 20

MaxListed == 3

MaxPrerequisites == 2

MaxAuthorities == 7

---------------------------------------------------------------------------
(* Data Fetcher                                                            *)

\* a fetcher that never takes the cached dataset (a fault C3 must detect)
CacheHitNever == FALSE

\* line 22: the cache holds a dataset
CacheHit == _services_cache # None

\* What the GET of line 26 can come back with: no response within the
\* timeout, or a response with a status and a body that parses or not.
\* A body that parses is a Dataset document (the upstream contract).
TimedOut == [kind |-> "timeout"]

Response(status, parses, body) == [kind |-> "response", status |-> status, parses |-> parses, body |-> body]

\* lines 26-28: the statement that raises, if any
FetchRaises(outcome) == \/ outcome.kind = "timeout"
                        \/ outcome.status \notin 200..299
                        \/ ~outcome.parses

\* str(e) of what lines 26-28 raise. The wording is the library's: httpx
\* gives a timeout no message, json an "Expecting value" message.
FetchMessage(outcome) == CASE outcome.kind = "timeout" -> <<>>
                           \* texts: "Server error '", "' for url"
                           [] outcome.status \notin 200..299 -> <<"S","e","r","v","e","r"," ","e","r","r","o","r"," ","'">> \o IntToStr(outcome.status) \o <<"'"," ","f","o","r"," ","u","r","l">>
                           \* texts: "Expecting value: line 1 column 1 (char 0)"
                           [] OTHER -> <<"E","x","p","e","c","t","i","n","g"," ","v","a","l","u","e",":"," ","l","i","n","e"," ","1"," ","c","o","l","u","m","n"," ","1"," ","(","c","h","a","r"," ","0",")">>

\* line 28: the cache after the GET came back
CacheAfterFetch(outcome) == IF FetchRaises(outcome) THEN _services_cache ELSE outcome.body

---------------------------------------------------------------------------
(* Tool Dispatcher                                                         *)

TextContent(text) == [type |-> "text", text |-> text]

\* the try block raised; `local` is the query result bound before it did
Raised(message, local) == [raised |-> TRUE, message |-> message, local |-> local]

\* the try block returned `text`; `local` is the query result it bound
\* (results, service or services), None when it bound none
Returned(text, local) == [raised |-> FALSE, text |-> text, local |-> local]

\* texts: "Error: "
ErrorPrefix == <<"E","r","r","o","r",":"," ">>

\* texts: "Error: query parameter is required"
QueryRequired == <<"E","r","r","o","r",":"," ","q","u","e","r","y"," ","p","a","r","a","m","e","t","e","r"," ","i","s"," ","r","e","q","u","i","r","e","d">>

\* texts: "Error: service_id parameter is required"
ServiceIdRequired == <<"E","r","r","o","r",":"," ","s","e","r","v","i","c","e","_","i","d"," ","p","a","r","a","m","e","t","e","r"," ","i","s"," ","r","e","q","u","i","r","e","d">>

\* texts: "Service with ID '", "' not found"
NotFound(service_id) == <<"S","e","r","v","i","c","e"," ","w","i","t","h"," ","I","D"," ","'">> \o PyStrOf(service_id) \o <<"'"," ","n","o","t"," ","f","o","u","n","d">>

\* lines 233-237
\* texts: "**", "**\nID: ", "\nURL: ", "\nFees: ", "\nDescription: ", "\n\n"
SearchParagraph(result) == <<"*","*">> \o PyStrOf(result.name) \o <<"*","*","\n","I","D",":"," ">> \o PyStrOf(result.id) \o <<"\n","U","R","L",":"," ">> \o result.url \o <<"\n","F","e","e","s",":"," ">> \o result.fees \o <<"\n","D","e","s","c","r","i","p","t","i","o","n",":"," ">> \o result.description \o <<"\n","\n">>

\* lines 218-239
SearchTool(arguments, data) == LET query == Get(arguments, "query", PyStr(<<>>)) IN
    IF ~Truthy(query) THEN Returned(QueryRequired, None)
    \* texts: "'int' object has no attribute 'lower'"
    ELSE IF query.t # "str" THEN Raised(<<"'","i","n","t","'"," ","o","b","j","e","c","t"," ","h","a","s"," ","n","o"," ","a","t","t","r","i","b","u","t","e"," ","'","l","o","w","e","r","'">>, None)
    ELSE LET results == search_services(data, query.v) IN
         \* texts: "No services found matching '", "'"
         IF results = <<>> THEN Returned(<<"N","o"," ","s","e","r","v","i","c","e","s"," ","f","o","u","n","d"," ","m","a","t","c","h","i","n","g"," ","'">> \o query.v \o <<"'">>, results)
         \* texts: "Found ", " service(s) matching '", "':\n\n"
         ELSE Returned(Concat(<< <<"F","o","u","n","d"," ">> \o IntToStr(Len(results)) \o <<" ","s","e","r","v","i","c","e","(","s",")"," ","m","a","t","c","h","i","n","g"," ","'">> \o query.v \o <<"'",":","\n","\n">> >> \o [i \in 1..Len(results) |-> SearchParagraph(results[i])]), results)

\* line 248: `not service`
ServiceMissing(service) == service = None \/ service = EmptyDict

\* lines 241-255
DetailsTool(arguments, data) == LET service_id == Get(arguments, "service_id", PyStr(<<>>)) IN
    IF ~Truthy(service_id) THEN Returned(ServiceIdRequired, None)
    ELSE LET service == get_service_by_id(data, service_id) IN
         IF ServiceMissing(service) THEN Returned(NotFound(service_id), service)
         ELSE Returned(format_service_details(service), service)

\* texts: "Berlin Administrative Services (showing ", " of ", " total):\n\n"
ListHeader(shown, data) == <<"B","e","r","l","i","n"," ","A","d","m","i","n","i","s","t","r","a","t","i","v","e"," ","S","e","r","v","i","c","e","s"," ","(","s","h","o","w","i","n","g"," ">> \o IntToStr(shown) \o <<" ","o","f"," ">> \o PyStrOf(Get(data, "datacount", PyInt(0))) \o <<" ","t","o","t","a","l",")",":","\n","\n">>

\* lines 263-264
\* texts: "- **", "** (ID: ", ")\n  ", "\n"
ListBullet(item) == <<"-"," ","*","*">> \o PyStrOf(item.name) \o <<"*","*"," ","(","I","D",":"," ">> \o PyStrOf(item.id) \o <<")","\n"," "," ">> \o item.url \o <<"\n">>

\* lines 257-266
ListTool(arguments, data) == LET limit == Get(arguments, "limit", PyInt(DefaultLimit)) IN
    \* texts: "'<' not supported between instances of 'int' and 'str'"
    IF limit.t # "int" THEN Raised(<<"'","<","'"," ","n","o","t"," ","s","u","p","p","o","r","t","e","d"," ","b","e","t","w","e","e","n"," ","i","n","s","t","a","n","c","e","s"," ","o","f"," ","'","i","n","t","'"," ","a","n","d"," ","'","s","t","r","'">>, None)
    ELSE LET services == list_all_services(data, Min(limit.v, MaxLimit)) IN
         Returned(Concat(<< ListHeader(Len(services), data) >> \o [i \in 1..Len(services) |-> ListBullet(services[i])]), services)

\* lines 268-279
\* texts: "# Berlin Services Statistics\n\n**Total Services:** ", "N/A", "\n**Last Updated:** ", "N/A", "\n**Locale:** ", "N/A", "\n**Data Hash:** ", "N/A", "\n**Error Status:** ", "\n\nThe dataset contains information about ", " administrative services provided by Berlin authorities.\n"
StatsTool(data) == Returned(<<"#"," ","B","e","r","l","i","n"," ","S","e","r","v","i","c","e","s"," ","S","t","a","t","i","s","t","i","c","s","\n","\n","*","*","T","o","t","a","l"," ","S","e","r","v","i","c","e","s",":","*","*"," ">> \o PyStrOf(Get(data, "datacount", PyStr(<<"N","/","A">>))) \o <<"\n","*","*","L","a","s","t"," ","U","p","d","a","t","e","d",":","*","*"," ">> \o Get(data, "created", <<"N","/","A">>) \o <<"\n","*","*","L","o","c","a","l","e",":","*","*"," ">> \o Get(data, "locale", <<"N","/","A">>) \o <<"\n","*","*","D","a","t","a"," ","H","a","s","h",":","*","*"," ">> \o Get(data, "hash", <<"N","/","A">>) \o <<"\n","*","*","E","r","r","o","r"," ","S","t","a","t","u","s",":","*","*"," ">> \o PyStrOf(Get(data, "error", PyBool(FALSE))) \o <<"\n","\n","T","h","e"," ","d","a","t","a","s","e","t"," ","c","o","n","t","a","i","n","s"," ","i","n","f","o","r","m","a","t","i","o","n"," ","a","b","o","u","t"," ">> \o PyStrOf(Get(data, "datacount", PyInt(0))) \o <<" ","a","d","m","i","n","i","s","t","r","a","t","i","v","e"," ","s","e","r","v","i","c","e","s"," ","p","r","o","v","i","d","e","d"," ","b","y"," ","B","e","r","l","i","n"," ","a","u","t","h","o","r","i","t","i","e","s",".","\n">>, None)

\* lines 218-282: the body of the try block once `data` is bound
\* texts: "search_services"
Dispatch(name, arguments, data) == CASE name = <<"s","e","a","r","c","h","_","s","e","r","v","i","c","e","s">> -> SearchTool(arguments, data)
                                     \* texts: "get_service_details"
                                     [] name = <<"g","e","t","_","s","e","r","v","i","c","e","_","d","e","t","a","i","l","s">> -> DetailsTool(arguments, data)
                                     \* texts: "list_services"
                                     [] name = <<"l","i","s","t","_","s","e","r","v","i","c","e","s">> -> ListTool(arguments, data)
                                     \* texts: "get_services_stats"
                                     [] name = <<"g","e","t","_","s","e","r","v","i","c","e","s","_","s","t","a","t","s">> -> StatsTool(data)
                                     \* texts: "Unknown tool: "
                                     [] OTHER -> Returned(<<"U","n","k","n","o","w","n"," ","t","o","o","l",":"," ">> \o name, None)

\* the handler without its prefix (a fault C1 must detect)
CaughtBare(message) == << TextContent(message) >>

\* lines 284-285
Caught(message) == << TextContent(ErrorPrefix \o message) >>

\* what call_tool returns for the outcome of its try block
Reply(result) == IF result.raised THEN Caught(result.message) ELSE << TextContent(result.text) >>

---------------------------------------------------------------------------
(* The process                                                             *)

\* a call_tool coroutine: where it stands, its parameters, its locals `data`
\* and the query result, and the list it returned
Idle == [pc |-> "idle", name |-> <<>>, arguments |-> EmptyDict, data |-> None, local |-> None, response |-> <<>>]

\* the coroutine once the try block ended with `result`
Finished(name, arguments, data, result) == [pc |-> "done", name |-> name, arguments |-> arguments, data |-> data, local |-> result.local, response |-> Reply(result)]

Init == /\ _services_cache = None
        /\ invocations = [i \in 1..MaxInvocations |-> Idle]
        /\ call = [fn |-> "none"]
        /\ ret = None

\* call_tool is invoked and runs up to its first suspension point: with the
\* cache filled it runs to its return, otherwise it issues the GET of line 26
\* and waits for it.
Invoke(i, name, arguments) ==
    /\ invocations[i].pc = "idle"
    /\ invocations' = [invocations EXCEPT ![i] =
            IF CacheHit
            THEN Finished(name, arguments, _services_cache, Dispatch(name, arguments, _services_cache))
            ELSE [Idle EXCEPT !.pc = "awaiting_get", !.name = name, !.arguments = arguments]]
    /\ UNCHANGED <<_services_cache, call, ret>>

\* the GET of invocation i comes back and call_tool runs to its return
GetCompletes(i, outcome) ==
    LET self == invocations[i] IN
    /\ self.pc = "awaiting_get"
    /\ _services_cache' = CacheAfterFetch(outcome)
    /\ invocations' = [invocations EXCEPT ![i] =
            IF FetchRaises(outcome)
            THEN Finished(self.name, self.arguments, None, Raised(FetchMessage(outcome), None))
            ELSE Finished(self.name, self.arguments, outcome.body, Dispatch(self.name, self.arguments, outcome.body))]
    /\ UNCHANGED <<call, ret>>

\* the host takes the response; the slot is free for the next request
Return(i) ==
    /\ invocations[i].pc = "done"
    /\ invocations' = [invocations EXCEPT ![i] = Idle]
    /\ UNCHANGED <<_services_cache, call, ret>>

\* The query functions and the formatter applied directly to inputs, one
\* application per behaviour.
ApplySearch(data, query) ==
    /\ call.fn = "none"
    /\ call' = [fn |-> "search_services", data |-> data, query |-> query]
    /\ ret' = search_services(data, query)
    /\ UNCHANGED <<_services_cache, invocations>>

ApplyList(data, limit) ==
    /\ call.fn = "none"
    /\ call' = [fn |-> "list_all_services", data |-> data, limit |-> limit]
    /\ ret' = list_all_services(data, limit)
    /\ UNCHANGED <<_services_cache, invocations>>

ApplyFormat(service) ==
    /\ call.fn = "none"
    /\ call' = [fn |-> "format_service_details", service |-> service]
    /\ ret' = format_service_details(service)
    /\ UNCHANGED <<_services_cache, invocations>>

---------------------------------------------------------------------------
(* Inputs                                                                  *)

\* texts: "Anmeldung", "Register your address", "keine", "/d/7", "Ausweis"
Anmeldung == [id |-> PyInt(7), name |-> <<"A","n","m","e","l","d","u","n","g">>, description |-> <<"R","e","g","i","s","t","e","r"," ","y","o","u","r"," ","a","d","d","r","e","s","s">>, fees |-> <<"k","e","i","n","e">>, meta |-> [url |-> <<"/","d","/","7">>], prerequisites |-> << [name |-> <<"A","u","s","w","e","i","s">>] >>]

\* texts: "42", "Pass", "Neuer Reisepass", "keine", "Antrag", "/f/1"
Pass == [id |-> PyStr(<<"4","2">>), name |-> <<"P","a","s","s">>, description |-> <<"N","e","u","e","r"," ","R","e","i","s","e","p","a","s","s">>, prerequisites |-> << [name |-> <<"k","e","i","n","e">>] >>, forms |-> << [name |-> <<"A","n","t","r","a","g">>, link |-> <<"/","f","/","1">>] >>]

\* a record whose description is longer than DescriptionLimit
\* texts: "Sonstiges"
Lang == [id |-> PyInt(9), name |-> <<"S","o","n","s","t","i","g","e","s">>, description |-> [i \in 1..(DescriptionLimit + 1) |-> IF i % 2 = 0 THEN "n" ELSE "a"]]

\* texts: "ASN"
Namenlos == [id |-> PyInt(12), description |-> <<"A","S","N">>]

\* texts: "2024-01-01", "de", "a1"
DocA == [data |-> << Anmeldung, Pass >>, datacount |-> PyInt(3), created |-> <<"2","0","2","4","-","0","1","-","0","1">>, locale |-> <<"d","e">>, hash |-> <<"a","1">>, error |-> PyBool(FALSE)]

\* the upstream document after it changed
\* texts: "2024-02-01", "de", "b2"
DocB == [data |-> << Pass, Anmeldung, Namenlos >>, datacount |-> PyInt(3), created |-> <<"2","0","2","4","-","0","2","-","0","1">>, locale |-> <<"d","e">>, hash |-> <<"b","2">>, error |-> PyBool(FALSE)]

DocLong == [data |-> << Lang, Namenlos, Anmeldung >>, datacount |-> PyInt(3)]

\* ids of both types, the same id twice, and a record without id
\* texts: "Erster", "Ohne", "7", "Sieben"
DocIds == [data |-> << [id |-> PyInt(42), name |-> <<"E","r","s","t","e","r">>], Pass, [name |-> <<"O","h","n","e">>], [id |-> PyStr(<<"7">>), name |-> <<"S","i","e","b","e","n">>], Anmeldung >>, datacount |-> PyInt(5)]

EmptyDoc == [datacount |-> PyInt(0)]

Documents == {DocA, DocB}

SearchDocuments == {DocA, DocB, DocLong, EmptyDoc}

LookupDocuments == {DocA, DocIds}

\* a dataset of n records
\* texts: "Dienst ", "/d/"
ListDocument(n) == [data |-> [i \in 1..n |-> [id |-> PyInt(i), name |-> <<"D","i","e","n","s","t"," ">> \o IntToStr(i), meta |-> [url |-> <<"/","d","/">> \o IntToStr(i)]]], datacount |-> PyInt(n)]

ListDocuments == {ListDocument(0), ListDocument(MaxListed), ListDocument(MaxLimit + 2)}

Texts(alphabet, maxlen) == UNION {[1..n -> alphabet] : n \in 0..maxlen}

Queries == Texts({"a", "N", "s"}, MaxQueryLen)

\* texts: "None", "abc"
SuppliedIds == {PyInt(n) : n \in 0..MaxId} \cup {PyStr(IntToStr(n)) : n \in 0..MaxId} \cup {PyStr(<<"N","o","n","e">>), PyStr(<<"a","b","c">>), PyStr(<<>>)}

Limits == (0 - MaxLimitArg)..MaxLimitArg \cup {MaxLimit, MaxLimit + 1, 0 - MaxLimit, 0 - MaxLimit - 3}

\* texts: "keine", "Ausweis"
PrerequisiteLists == UNION {[1..n -> {[name |-> <<"k","e","i","n","e">>], [name |-> <<"A","u","s","w","e","i","s">>]}] : n \in 0..MaxPrerequisites}

\* texts: "Antrag", "/f/1", "Merkblatt"
FormLists == {<<>>, << [name |-> <<"A","n","t","r","a","g">>, link |-> <<"/","f","/","1">>], [name |-> <<"M","e","r","k","b","l","a","t","t">>] >>}

\* texts: "Anmeldung", "Amt", "Ummeldung"
FormatServices == {[id |-> PyInt(7), name |-> <<"A","n","m","e","l","d","u","n","g">>, prerequisites |-> p, authorities |-> [i \in 1..n |-> [name |-> <<"A","m","t">>]], forms |-> f] : p \in PrerequisiteLists, n \in 0..MaxAuthorities, f \in FormLists} \cup {Anmeldung, Pass, Namenlos, [name |-> <<"U","m","m","e","l","d","u","n","g">>, prerequisites |-> << EmptyDict >>]}

ToolCall(name, arguments) == [name |-> name, arguments |-> arguments]

\* texts: "search_services", "anmeld"
Calls == {ToolCall(<<"s","e","a","r","c","h","_","s","e","r","v","i","c","e","s">>, [query |-> PyStr(<<"a","n","m","e","l","d">>)]),
          \* texts: "search_services"
          ToolCall(<<"s","e","a","r","c","h","_","s","e","r","v","i","c","e","s">>, EmptyDict),
          \* texts: "search_services"
          ToolCall(<<"s","e","a","r","c","h","_","s","e","r","v","i","c","e","s">>, [query |-> PyInt(5)]),
          \* texts: "get_service_details", "7"
          ToolCall(<<"g","e","t","_","s","e","r","v","i","c","e","_","d","e","t","a","i","l","s">>, [service_id |-> PyStr(<<"7">>)]),
          \* texts: "get_service_details"
          ToolCall(<<"g","e","t","_","s","e","r","v","i","c","e","_","d","e","t","a","i","l","s">>, [service_id |-> PyStr(<<>>)]),
          \* texts: "list_services"
          ToolCall(<<"l","i","s","t","_","s","e","r","v","i","c","e","s">>, EmptyDict),
          \* texts: "list_services", "x"
          ToolCall(<<"l","i","s","t","_","s","e","r","v","i","c","e","s">>, [limit |-> PyStr(<<"x">>)]),
          \* texts: "get_services_stats"
          ToolCall(<<"g","e","t","_","s","e","r","v","i","c","e","s","_","s","t","a","t","s">>, EmptyDict),
          \* texts: "frobnicate"
          ToolCall(<<"f","r","o","b","n","i","c","a","t","e">>, EmptyDict)}

\* texts: "get_service_details", "get_service_details"
LookupCalls == {ToolCall(<<"g","e","t","_","s","e","r","v","i","c","e","_","d","e","t","a","i","l","s">>, [service_id |-> id]) : id \in SuppliedIds} \cup {ToolCall(<<"g","e","t","_","s","e","r","v","i","c","e","_","d","e","t","a","i","l","s">>, EmptyDict)}

\* texts: "list_services", "list_services"
ListCalls == {ToolCall(<<"l","i","s","t","_","s","e","r","v","i","c","e","s">>, [limit |-> PyInt(n)]) : n \in Limits} \cup {ToolCall(<<"l","i","s","t","_","s","e","r","v","i","c","e","s">>, EmptyDict)}

Outcomes(documents) == {TimedOut, Response(503, FALSE, None), Response(200, FALSE, None)} \cup {Response(200, TRUE, d) : d \in documents}

---------------------------------------------------------------------------
(* Specifications                                                          *)

\* the server under concurrent tool invocations
Next == \E i \in 1..MaxInvocations :
            \/ \E c \in Calls : Invoke(i, c.name, c.arguments)
            \/ \E o \in Outcomes(Documents) : GetCompletes(i, o)
            \/ Return(i)

Spec == Init /\ [][Next]_vars

\* search_services over datasets and queries
NextSearch == \E d \in SearchDocuments, q \in Queries : ApplySearch(d, q)

SpecSearch == Init /\ [][NextSearch]_vars

\* get_service_details invocations, one at a time
NextLookup == \/ \E c \in LookupCalls : Invoke(1, c.name, c.arguments)
              \/ \E o \in Outcomes(LookupDocuments) : GetCompletes(1, o)
              \/ Return(1)

SpecLookup == Init /\ [][NextLookup]_vars

\* list_all_services over datasets and limits
NextListAll == \E d \in ListDocuments, limit \in Limits : ApplyList(d, limit)

SpecListAll == Init /\ [][NextListAll]_vars

\* list_services invocations, one at a time
NextList == \/ \E c \in ListCalls : Invoke(1, c.name, c.arguments)
            \/ \E o \in Outcomes(ListDocuments) : GetCompletes(1, o)
            \/ Return(1)

SpecList == Init /\ [][NextList]_vars

\* format_service_details over service records
NextFormat == \E s \in FormatServices : ApplyFormat(s)

SpecFormat == Init /\ [][NextFormat]_vars

---------------------------------------------------------------------------
(* Claims                                                                  *)

Slots == 1..MaxInvocations

\* the text of the one content item a finished invocation returned
Text(i) == invocations[i].response[1].text

\* invocation i finished and its fetch raised: `data` was never bound
FetchFailed(i) == invocations[i].pc = "done" /\ invocations[i].data = None

C1Responses == \A i \in Slots : invocations[i].pc = "done" =>
    /\ Len(invocations[i].response) = 1
    /\ invocations[i].response[1].type = "text"
    /\ (FetchFailed(i) => StartsWith(Text(i), ErrorPrefix))

C1Step == \A i \in Slots :
    /\ (invocations[i].pc = "awaiting_get" /\ FetchFailed(i)') => _services_cache' = _services_cache
    /\ (invocations[i].pc = "idle" /\ invocations'[i].pc # "idle" /\ _services_cache = None) => invocations'[i].pc = "awaiting_get"

\* C1: every finished invocation returned exactly one text content item;
\* when its fetch failed the text starts with "Error: ", the failing fetch
\* left the cache as it was (unpopulated when it was empty), and an
\* invocation that starts while the cache is empty issues the GET again.
C1ErrorsAreResponses == []C1Responses /\ [][C1Step]_vars

\* C1 witness: an invocation answered "Error: ..." after a failed fetch, the
\* cache is still empty and another invocation has the GET in flight again.
C1Witness == \E i, j \in Slots :
    /\ FetchFailed(i) /\ StartsWith(Text(i), ErrorPrefix)
    /\ _services_cache = None
    /\ invocations[j].pc = "awaiting_get"

\* C2: at most one GET to the dataset URL is in flight at any time.
C2SingleFlight == Cardinality({i \in Slots : invocations[i].pc = "awaiting_get"}) <= 1

C3Step == _services_cache # None =>
    /\ _services_cache' # None
    /\ \A i \in Slots : (invocations[i].pc = "idle" /\ invocations'[i].pc # "idle") =>
            /\ invocations'[i].pc = "done"
            /\ invocations'[i].data = _services_cache
            /\ _services_cache' = _services_cache

\* C3: once the cache holds a dataset no step empties it, and an invocation
\* that starts then gets the cached dataset as its `data` and finishes
\* without a GET.
C3CachedForever == [][C3Step]_vars

\* C3 witness: the cache is filled and two invocations finished on it.
C3Witness == \E i, j \in Slots :
    /\ i # j
    /\ _services_cache # None
    /\ invocations[i].pc = "done" /\ invocations[i].data = _services_cache
    /\ invocations[j].pc = "done" /\ invocations[j].data = _services_cache

SameLetter(a, b) == LowerChar(a) = LowerChar(b)

\* q occurs in text at some offset, letters compared without case
OccursIn(q, text) == \E k \in 0..(Len(text) - Len(q)) : \A j \in 1..Len(q) : SameLetter(text[k + j], q[j])

Matching(services, q) == {i \in 1..Len(services) : OccursIn(q, Get(services[i], "name", <<>>)) \/ OccursIn(q, Get(services[i], "description", <<>>))}

\* the k-th smallest index of a set of indices
Nth(indices, k) == CHOOSE i \in indices : Cardinality({j \in indices : j < i}) = k - 1

\* C4: for a non-empty query search_services returns the projections of
\* exactly the records whose name or description contains the query without
\* regard to case, in dataset order (an empty sequence when none does).
C4SearchExact == (call.fn = "search_services" /\ call.query # <<>>) =>
    LET services == Services(call.data)
        matching == Matching(services, call.query)
    IN /\ Len(ret) = Cardinality(matching)
       /\ \A k \in 1..Len(ret) : ret[k] = SearchResult(services[Nth(matching, k)])

\* C4 witness: a non-empty query matched some records and not others, one of
\* them by a letter of the other case.
C4Witness == /\ call.fn = "search_services" /\ call.query # <<>>
             /\ Len(ret) >= 1 /\ Len(ret) < Len(Services(call.data))
             /\ ~Contains(call.query, Get(Services(call.data)[Nth(Matching(Services(call.data), call.query), 1)], "name", <<>>))
             /\ ~Contains(call.query, Get(Services(call.data)[Nth(Matching(Services(call.data), call.query), 1)], "description", <<>>))

\* invocation i is a finished get_service_details call that had a dataset
\* and a service_id the required-parameter check let through
LookedUp(i) == /\ invocations[i].pc = "done"
               \* texts: "get_service_details"
               /\ invocations[i].name = <<"g","e","t","_","s","e","r","v","i","c","e","_","d","e","t","a","i","l","s">>
               /\ invocations[i].data # None
               /\ Truthy(Get(invocations[i].arguments, "service_id", PyStr(<<>>)))

SameId(service, service_id) == PyStrOf(Get(service, "id", None)) = PyStrOf(service_id)

\* C5: get_service_by_id gave the first record whose id as a string equals
\* the supplied identifier as a string, or None when there is none; the
\* answer is the formatted record in the first case and exactly
\* "Service with ID '<service_id>' not found" in the second, never "Error: ".
C5LookupCoerces == \A i \in Slots : LookedUp(i) =>
    LET services == Services(invocations[i].data)
        service_id == invocations[i].arguments.service_id
        hits == {k \in 1..Len(services) : SameId(services[k], service_id)}
    IN /\ hits # {} => /\ invocations[i].local = services[Nth(hits, 1)]
                       /\ Text(i) = format_service_details(services[Nth(hits, 1)])
       /\ hits = {} => /\ invocations[i].local = None
                       \* texts: "Service with ID '", "' not found"
                       /\ Text(i) = <<"S","e","r","v","i","c","e"," ","w","i","t","h"," ","I","D"," ","'">> \o PyStrOf(service_id) \o <<"'"," ","n","o","t"," ","f","o","u","n","d">>
       /\ ~StartsWith(Text(i), ErrorPrefix)

\* C5 witness: the identifier "42" found a record whose id is the number 42,
\* ahead of a later record whose id is the string "42".
C5Witness == \E i \in Slots :
    /\ LookedUp(i)
    \* texts: "42"
    /\ invocations[i].arguments.service_id = PyStr(<<"4","2">>)
    /\ invocations[i].local # None
    /\ invocations[i].local.id = PyInt(42)

\* C6: list_all_services returns the first `limit` records projected to
\* {id, name, url}: nothing for a zero or negative limit, the whole dataset
\* for a limit of its length or more.
C6ListPrefix == call.fn = "list_all_services" =>
    LET services == Services(call.data)
        expected == IF call.limit <= 0 THEN 0 ELSE Min(call.limit, Len(services))
    IN /\ Len(ret) = expected
       /\ \A k \in 1..Len(ret) : ret[k] = ListItem(services[k])

\* the bullets of a list_services text: "- **" at the start of a line
BulletCount(text) == Cardinality({k \in 1..(Len(text) - 3) : /\ text[k] = "-" /\ text[k + 1] = " " /\ text[k + 2] = "*" /\ text[k + 3] = "*"
                                                             /\ k > 1 /\ text[k - 1] = "\n"})

\* C7: a list_services invocation with an integer or absent limit lists at
\* most 200 items, and the count in its header is the number of bullets.
C7ListClamped == \A i \in Slots :
    (/\ invocations[i].pc = "done"
     \* texts: "list_services"
     /\ invocations[i].name = <<"l","i","s","t","_","s","e","r","v","i","c","e","s">>
     /\ invocations[i].data # None) =>
        /\ BulletCount(Text(i)) <= MaxLimit
        \* texts: "Berlin Administrative Services (showing ", " of "
        /\ StartsWith(Text(i), <<"B","e","r","l","i","n"," ","A","d","m","i","n","i","s","t","r","a","t","i","v","e"," ","S","e","r","v","i","c","e","s"," ","(","s","h","o","w","i","n","g"," ">> \o IntToStr(BulletCount(Text(i))) \o <<" ","o","f"," ">>)

\* invocation i was made without its required parameter, or with an empty one
MissingRequired(i) ==
    \* texts: "search_services"
    \/ invocations[i].name = <<"s","e","a","r","c","h","_","s","e","r","v","i","c","e","s">> /\ ~Truthy(Get(invocations[i].arguments, "query", PyStr(<<>>)))
    \* texts: "get_service_details"
    \/ invocations[i].name = <<"g","e","t","_","s","e","r","v","i","c","e","_","d","e","t","a","i","l","s">> /\ ~Truthy(Get(invocations[i].arguments, "service_id", PyStr(<<>>)))

\* texts: "search_services", "Error: query parameter is required", "Error: service_id parameter is required"
RequiredMessage(i) == IF invocations[i].name = <<"s","e","a","r","c","h","_","s","e","r","v","i","c","e","s">> THEN <<"E","r","r","o","r",":"," ","q","u","e","r","y"," ","p","a","r","a","m","e","t","e","r"," ","i","s"," ","r","e","q","u","i","r","e","d">> ELSE <<"E","r","r","o","r",":"," ","s","e","r","v","i","c","e","_","i","d"," ","p","a","r","a","m","e","t","e","r"," ","i","s"," ","r","e","q","u","i","r","e","d">>

\* C8: an invocation without its required parameter issues no GET and
\* answers with the parameter-required message whatever the fetch did.
C8ValidatedFirst == \A i \in Slots : MissingRequired(i) =>
    /\ invocations[i].pc # "awaiting_get"
    /\ invocations[i].pc = "done" => Text(i) = RequiredMessage(i)

\* C9: the Prerequisites section is left out exactly when the list is empty
\* or is the single entry named "keine"; otherwise it is there with one
\* bullet per entry.
C9PrerequisitesSole == call.fn = "format_service_details" =>
    LET prerequisites == Get(call.service, "prerequisites", <<>>)
        \* texts: "keine"
        sole == Len(prerequisites) = 1 /\ GetText(prerequisites[1], "name") = PyStr(<<"k","e","i","n","e">>)
        \* texts: "\n## Prerequisites\n"
        present == Contains(<<"\n","#","#"," ","P","r","e","r","e","q","u","i","s","i","t","e","s","\n">>, ret)
    IN /\ ~present <=> (prerequisites = <<>> \/ sole)
       \* texts: "\n## Prerequisites", "- ", "N/A", "\n"
       /\ present => Contains(Join(<< <<"\n","#","#"," ","P","r","e","r","e","q","u","i","s","i","t","e","s">> >> \o [k \in 1..Len(prerequisites) |-> <<"-"," ">> \o Get(prerequisites[k], "name", <<"N","/","A">>)], <<"\n">>), ret)

\* C10: once the cache holds a dataset no step replaces it.
C10WrittenOnce == [][_services_cache # None => _services_cache' = _services_cache]_vars

=============================================================================
